---- MODULE Spec2Model ----
(***************************************************************************)
(* A model of the wire-protocol runtime of the jay compositor:             *)
(*   - utils/queue.rs          AsyncQueue, the wake-on-push queue          *)
(*   - utils/buffd/parser.rs   MsgParser, the request payload decoder      *)
(*   - ifs/*.rs                protocol objects and their request handlers *)
(*   - ifs/wl_seat/wl_pointer.rs  PendingScroll, the scroll event buffer   *)
(*   - tasks.rs                a consumer task looping on AsyncQueue::pop  *)
(*   - it/test_ifs/test_shm_pool.rs  TestShmPool of the integration tests  *)
(* Each part has its own specification (SpecQueue, SpecParser, ...); the   *)
(* variables of the other parts stay at their initial values.              *)
(***************************************************************************)
EXTENDS Integers, Sequences, FiniteSets, TLC

VARIABLES
    \* ---- AsyncQueue (utils/queue.rs) ----
    data,       \* AsyncQueue.data: the VecDeque, front first
    waiter,     \* AsyncQueue.waiter: NoWaker or the suspension whose waker is stored
    fut,        \* state of every AsyncQueuePop future
    pushed,     \* history: every element pushed, in push order
    popped,     \* history: every element returned by try_pop / pop, in return order
    wakes,      \* history: how often the waker of each suspension was invoked
    cleared,    \* history: whether clear() was ever called
    qlast,      \* the last queue operation and what it returned
    \* ---- MsgParser (utils/buffd/parser.rs) ----
    pdata,      \* MsgParser.data: the payload as bytes
    ppos,       \* MsgParser.pos: the read cursor
    pread,      \* history: one past the highest payload index read so far
    pfds,       \* MsgParser.buf: the file descriptors queued by the transport
    plast,      \* the last parser call: where it started and what it returned
    \* ---- a client connection and its protocol objects (ifs/*.rs) ----
    conn,       \* "up", "failed" (an error reached the dispatcher) or "closed"
    privileged, \* whether the connection may bind secure globals
    objects,    \* the object registry: id -> interface of the live object
    version,    \* ZxdgOutputManagerV1.version / ZxdgOutputV1.version by id
    xdgOut,     \* ZxdgOutputV1 id -> the wl_output whose xdg_outputs holds it
    logLevel,   \* state.logger's level
    running,    \* whether the event loop state.el runs
    pointers,   \* WlSeat.pointers
    appCursor,  \* the seat's application cursor: a surface id or 0
    surfRole,   \* role of every wl_surface
    hotspot,    \* hotspot of every surface's cursor
    focus,      \* the client that owns the seat's pointer node
    lastEnter,  \* client.last_enter_serial
    serial,     \* the last serial handed to the client
    offerSrc,   \* ZwpPrimarySelectionOfferV1.source by offer id: a source,
                \* 0 (None), or -1 where there is no such offer object
    clearCalls, \* history: clear_offer calls each offer made on its source
    devices,    \* number of the seat's primary-selection devices of the client
    mimeTypes,  \* src.mime_types
    last,       \* the last call on the connection and what it returned
    events,     \* the events that call emitted, in order
    \* ---- PendingScroll (ifs/wl_seat/wl_pointer.rs) ----
    ps,         \* the PendingScroll of a seat: its seven cells
    pslog,      \* history: the writes to its cells since the last take
    pslast,     \* the last operation on it and what take returned
    \* ---- TestShmPool (it/test_ifs/test_shm_pool.rs) ----
    destroyed,  \* TestShmPool.destroyed
    mem,        \* length of TestShmPool.mem
    dropped,    \* whether the pool has been dropped
    sent,       \* the messages handed to tran.send, in order
    calls,      \* history: explicit destroy calls so far
    buffers,    \* ids taken from tran.id() for buffers
    shlast      \* the last operation on the pool and its result

qvars == <<data, waiter, fut, pushed, popped, wakes, cleared, qlast>>
pvars == <<pdata, ppos, pread, pfds, plast>>

\* what the operations of one part leave alone: the other parts
cvars == <<conn, privileged, objects, version, xdgOut, logLevel, running,
           pointers, appCursor, surfRole, hotspot, focus, lastEnter, serial,
           offerSrc, clearCalls, devices, mimeTypes, last, events>>
svars == <<ps, pslog, pslast>>
hvars == <<destroyed, mem, dropped, sent, calls, buffers, shlast>>
notq == <<pvars, cvars, svars, hvars>>
notp == <<qvars, cvars, svars, hvars>>
notc == <<qvars, pvars, svars, hvars>>
nots == <<qvars, pvars, cvars, hvars>>
noth == <<qvars, pvars, cvars, svars>>

vars == <<qvars, pvars, cvars, svars, hvars>>

----------------------------------------------------------------------------
(* Bounds of the model *)

MaxPush == 3    \* pushes per behaviour
MaxFut  == 2    \* pop futures created per behaviour
MaxText == 3    \* bytes of text placed in a payload
MaxLenWord == 6 \* largest small value of a string's length word
MaxBodyWords == 2   \* 32-bit words following the length word
MaxId == 4      \* object ids the client uses
MaxSrv == 2     \* object ids the server can allocate
MaxSerial == 2  \* serials handed out per behaviour
MaxDev == 2     \* primary-selection devices of the client on the seat
MaxMime == 2    \* mime types of the selection source
MaxWrites == 3  \* writes to a PendingScroll between two takes
MaxProd == 2    \* producers pushing to the consumer's queue
MaxDestroy == 2 \* explicit destroy calls on a TestShmPool
MaxSent == 3    \* messages sent before resize and create_buffer stop

----------------------------------------------------------------------------
(* MsgParser *)

\* the text bytes used in payloads: 'A', and the two bytes of U+00E9,
\* which are valid only as the pair 195, 169
TextBytes == {65, 195, 169}
PadBytes == {0, 255}

RECURSIVE SeqsUpTo(_, _)
SeqsUpTo(S, n) ==
    IF n = 0 THEN {<<>>}
    ELSE LET shorter == SeqsUpTo(S, n - 1)
         IN shorter \cup {Append(q, x) : q \in {r \in shorter : Len(r) = n - 1}, x \in S}

\* body made exactly n bytes long: cut, or filled up with pad
Resize(body, n, pad) == [i \in 1 .. n |-> IF i <= Len(body) THEN body[i] ELSE pad]

\* a small 32-bit word as it lies in memory (little endian)
WordBytes(w) ==
    <<w % 256, (w \div 256) % 256, (w \div 65536) % 256, (w \div 16777216) % 256>>

\* std::str::from_utf8: whether the bytes b[i..] are well-formed UTF-8
Cont(x) == x >= 128 /\ x <= 191
RECURSIVE Utf8From(_, _)
Utf8From(b, i) ==
    IF i > Len(b) THEN TRUE
    ELSE LET x == b[i]
             has(k) == i + k <= Len(b)
         IN  IF x <= 127 THEN Utf8From(b, i + 1)
             ELSE IF x >= 194 /\ x <= 223
                  THEN has(1) /\ Cont(b[i + 1]) /\ Utf8From(b, i + 2)
             ELSE IF x >= 224 /\ x <= 239
                  THEN /\ has(2)
                       /\ Cont(b[i + 1]) /\ Cont(b[i + 2])
                       /\ (x = 224 => b[i + 1] >= 160)
                       /\ (x = 237 => b[i + 1] <= 159)
                       /\ Utf8From(b, i + 3)
             ELSE IF x >= 240 /\ x <= 244
                  THEN /\ has(3)
                       /\ Cont(b[i + 1]) /\ Cont(b[i + 2]) /\ Cont(b[i + 3])
                       /\ (x = 240 => b[i + 1] >= 144)
                       /\ (x = 244 => b[i + 1] <= 143)
                       /\ Utf8From(b, i + 4)
             ELSE FALSE
from_utf8(b) == Utf8From(b, 1)

\* Values wider than 31 bits (u32, usize) are kept as <<hi, lo>>, standing
\* for hi * 65536 + lo with 0 <= lo < 65536.
Half == 65536
Wide(n) == <<n \div Half, n % Half>>
\* w > n, for a natural number n
WGt(w, n) == w[1] > n \div Half \/ (w[1] = n \div Half /\ w[2] > n % Half)
\* the natural number w, when it is known to be small
WNat(w) == w[1] * Half + w[2]
\* (w + 3) & !3 in usize (64 bits: no wrap)
WRoundUp4(w) ==
    LET lo3 == w[2] + 3
        lo == lo3 % Half
    IN  <<w[1] + lo3 \div Half, lo - (lo % 4)>>

\* the i32 read through the raw pointer at byte offset p (p counts from 0)
ReadI32(d, p) ==
    LET low == d[p + 1] + 256 * d[p + 2] + 65536 * d[p + 3]
        top == IF d[p + 4] >= 128 THEN d[p + 4] - 256 ELSE d[p + 4]
    IN  low + 16777216 * top

\* i as u32
AsU32(i) ==
    IF i >= 0 THEN Wide(i)
    ELSE LET j == (i + 2147483647) + 1
         IN  <<32768 + j \div Half, j % Half>>

\* result of a parser call: status, value, cursor afterwards, end of the
\* bytes it read (0: it read none)
PRes(st, v, pos, rd) == [status |-> st, val |-> v, pos |-> pos, read |-> rd]

\* (mutant) int that also refuses when exactly 4 bytes remain
ParseInt_NeedsMore(d, p) ==
    IF Len(d) - p <= 4
    THEN PRes("UnexpectedEof", 0, p, 0)
    ELSE PRes("Ok", ReadI32(d, p), p + 4, p + 4)

\* MsgParser::int
ParseInt(d, p) ==
    IF Len(d) - p < 4
    THEN PRes("UnexpectedEof", 0, p, 0)
    ELSE PRes("Ok", ReadI32(d, p), p + 4, p + 4)

\* MsgParser::uint: int, then i as u32
ParseUint(d, p) ==
    LET r == ParseInt(d, p)
    IN  IF r.status = "Ok" THEN [r EXCEPT !.val = AsU32(r.val)] ELSE r

\* MsgParser::object: int, then ObjectId::from_raw(i as u32)
ParseObject(d, p) ==
    LET r == ParseInt(d, p)
    IN  IF r.status = "Ok" THEN [r EXCEPT !.val = AsU32(r.val)] ELSE r

\* MsgParser::global: int, then GlobalName::from_raw(i as u32)
ParseGlobal(d, p) ==
    LET r == ParseInt(d, p)
    IN  IF r.status = "Ok" THEN [r EXCEPT !.val = AsU32(r.val)] ELSE r

\* MsgParser::fixed: int, then i as f64 / 256.0, kept as the fraction
\* <<i, 256>> (the division is exact in f64)
ParseFixed(d, p) ==
    LET r == ParseInt(d, p)
    IN  IF r.status = "Ok" THEN [r EXCEPT !.val = <<r.val, 256>>] ELSE r

\* (mutant) string that keeps the terminator byte in the text
ParseString_KeepTerminator(d, p) ==
    LET r == ParseUint(d, p)
        len == r.val
        q == r.pos
        cap == WRoundUp4(len)
        n == WNat(len)
        s == SubSeq(d, q + 1, q + n)
    IN  IF r.status /= "Ok" THEN r
        ELSE IF len = Wide(0) THEN PRes("EmptyString", 0, q, r.read)
        ELSE IF WGt(cap, Len(d) - q) THEN PRes("UnexpectedEof", 0, q, r.read)
        ELSE IF q + n > Len(d) THEN PRes("Panic", 0, q, r.read)
        ELSE IF ~from_utf8(s) THEN PRes("NonUtf8", 0, q, q + n)
        ELSE PRes("Ok", s, q + WNat(cap), q + n)

\* (mutant) string without the check of the padded length against the
\* remaining bytes
ParseString_NoCapCheck(d, p) ==
    LET r == ParseUint(d, p)
        len == r.val
        q == r.pos
        cap == WRoundUp4(len)
        n == WNat(len)
        s == SubSeq(d, q + 1, q + n - 1)
        rd == IF n > 1 THEN q + n - 1 ELSE r.read
    IN  IF r.status /= "Ok" THEN r
        ELSE IF len = Wide(0) THEN PRes("EmptyString", 0, q, r.read)
        ELSE IF WGt(len, Len(d) - q + 1) THEN PRes("Panic", 0, q, r.read)
        ELSE IF ~from_utf8(s) THEN PRes("NonUtf8", 0, q, rd)
        ELSE PRes("Ok", s, q + WNat(cap), rd)

\* (mutant) string that advances by the length instead of the padded length
ParseString_AdvanceLen(d, p) ==
    LET r == ParseUint(d, p)
        len == r.val
        q == r.pos
        cap == WRoundUp4(len)
        n == WNat(len)
        s == SubSeq(d, q + 1, q + n - 1)
        rd == IF n > 1 THEN q + n - 1 ELSE r.read
    IN  IF r.status /= "Ok" THEN r
        ELSE IF len = Wide(0) THEN PRes("EmptyString", 0, q, r.read)
        ELSE IF WGt(cap, Len(d) - q) THEN PRes("UnexpectedEof", 0, q, r.read)
        ELSE IF WGt(len, Len(d) - q + 1) THEN PRes("Panic", 0, q, r.read)
        ELSE IF ~from_utf8(s) THEN PRes("NonUtf8", 0, q, rd)
        ELSE PRes("Ok", s, q + n, rd)

\* MsgParser::string. usize is 64 bits wide, so len + 3 does not wrap; the
\* slice data[pos .. pos + len - 1] is bounds-checked and would panic, not
\* read, if it reached past the end.
ParseString(d, p) ==
    LET r == ParseUint(d, p)
        len == r.val
        q == r.pos
        cap == WRoundUp4(len)
        n == WNat(len)
        s == SubSeq(d, q + 1, q + n - 1)
        rd == IF n > 1 THEN q + n - 1 ELSE r.read
    IN  IF r.status /= "Ok" THEN r
        ELSE IF len = Wide(0) THEN PRes("EmptyString", 0, q, r.read)
        ELSE IF WGt(cap, Len(d) - q) THEN PRes("UnexpectedEof", 0, q, r.read)
        ELSE IF WGt(len, Len(d) - q + 1) THEN PRes("Panic", 0, q, r.read)
        ELSE IF ~from_utf8(s) THEN PRes("NonUtf8", 0, q, rd)
        ELSE PRes("Ok", s, q + WNat(cap), rd)

\* (mutant) eof that only checks that the cursor is not past the end
ParseEof_NotPast(d, p) ==
    IF p <= Len(d) THEN PRes("Ok", 0, p, 0) ELSE PRes("TrailingData", 0, p, 0)

\* MsgParser::eof
ParseEof(d, p) ==
    IF p = Len(d) THEN PRes("Ok", 0, p, 0) ELSE PRes("TrailingData", 0, p, 0)

Max(a, b) == IF a >= b THEN a ELSE b

\* one call on the parser: the cursor and the result it leaves
PCall(op, r) ==
    /\ plast.status /= "Panic"
    /\ ppos' = r.pos
    /\ pread' = Max(pread, r.read)
    /\ plast' = [op |-> op, from |-> ppos, status |-> r.status, val |-> r.val]
    /\ UNCHANGED <<pdata, pfds>>
    /\ UNCHANGED notp

PInt == PCall("int", ParseInt(pdata, ppos))
PUint == PCall("uint", ParseUint(pdata, ppos))
PObject == PCall("object", ParseObject(pdata, ppos))
PGlobal == PCall("global", ParseGlobal(pdata, ppos))
PFixed == PCall("fixed", ParseFixed(pdata, ppos))
PString == PCall("string", ParseString(pdata, ppos))
PEof == PCall("eof", ParseEof(pdata, ppos))

\* MsgParser::fd: the next queued descriptor, or MissingFd; the cursor
\* stays
PFd ==
    /\ plast.status /= "Panic"
    /\ IF pfds /= <<>>
       THEN /\ pfds' = Tail(pfds)
            /\ plast' = [op |-> "fd", from |-> ppos, status |-> "Ok", val |-> Head(pfds)]
       ELSE /\ pfds' = pfds
            /\ plast' = [op |-> "fd", from |-> ppos, status |-> "MissingFd", val |-> 0]
    /\ UNCHANGED <<pdata, ppos, pread>>
    /\ UNCHANGED notp

\* the descriptors that came with the message
FdQueues == {<<>>, <<5>>}

\* the payloads: nothing, or [a leading word,] a length word and a body of
\* whole words holding some text, cut or padded
\* length words: the small ones, 0xFFFFFFFF and 0x00010004
LenWords ==
    {WordBytes(w) : w \in 0 .. MaxLenWord} \cup {<<255, 255, 255, 255>>, <<4, 0, 1, 0>>}
Payloads ==
    {<<>>} \cup
    { pre \o lw \o Resize(t, 4 * n, pad) :
        pre \in {<<>>, WordBytes(7)},
        lw \in LenWords,
        t \in SeqsUpTo(TextBytes, MaxText),
        n \in 0 .. MaxBodyWords,
        pad \in PadBytes }

PIdle ==
    /\ pdata = <<>>
    /\ ppos = 0
    /\ pread = 0
    /\ pfds = <<>>
    /\ plast = [op |-> "new", from |-> 0, status |-> "Ok", val |-> 0]

\* MsgParser::new over a payload of whole words
PInit ==
    /\ pdata \in Payloads
    /\ ppos = 0
    /\ pread = 0
    /\ pfds \in FdQueues
    /\ plast = [op |-> "new", from |-> 0, status |-> "Ok", val |-> 0]

PNext == PInt \/ PUint \/ PObject \/ PGlobal \/ PFixed \/ PString \/ PFd \/ PEof

----------------------------------------------------------------------------
(* AsyncQueue *)

Futs == 1 .. MaxFut
NoWaker == 0

\* first n elements of s
Prefix(s, n) == SubSeq(s, 1, n)

QInit ==
    /\ data = <<>>
    /\ waiter = NoWaker
    /\ fut = [f \in Futs |-> "none"]
    /\ pushed = <<>>
    /\ popped = <<>>
    /\ wakes = [f \in Futs |-> 0]
    /\ cleared = FALSE
    /\ qlast = [op |-> "new", ret |-> 0, by |-> 0, woke |-> NoWaker]

QIdle == QInit

\* (mutant) push that inserts at the front of the deque
PushFront(t) ==
    /\ Len(pushed) < MaxPush
    /\ data' = <<t>> \o data
    /\ pushed' = Append(pushed, t)
    /\ waiter' = NoWaker
    /\ wakes' = IF waiter /= NoWaker
                THEN [wakes EXCEPT ![waiter] = @ + 1]
                ELSE wakes
    /\ qlast' = [op |-> "push", ret |-> t, by |-> 0, woke |-> waiter]
    /\ UNCHANGED <<fut, popped, cleared>>
    /\ UNCHANGED notq

\* (mutant) push that takes the waiter and drops it without waking it
Push_NoWake(t) ==
    /\ Len(pushed) < MaxPush
    /\ data' = Append(data, t)
    /\ pushed' = Append(pushed, t)
    /\ waiter' = NoWaker
    /\ qlast' = [op |-> "push", ret |-> t, by |-> 0, woke |-> NoWaker]
    /\ UNCHANGED <<fut, popped, cleared, wakes>>
    /\ UNCHANGED notq

\* (mutant) push that wakes the waiter but leaves it in the slot
Push_KeepWaiter(t) ==
    /\ Len(pushed) < MaxPush
    /\ data' = Append(data, t)
    /\ pushed' = Append(pushed, t)
    /\ waiter' = waiter
    /\ wakes' = IF waiter /= NoWaker
                THEN [wakes EXCEPT ![waiter] = @ + 1]
                ELSE wakes
    /\ qlast' = [op |-> "push", ret |-> t, by |-> 0, woke |-> waiter]
    /\ UNCHANGED <<fut, popped, cleared>>
    /\ UNCHANGED notq

\* AsyncQueue::push: push_back, then take the waiter and wake it
Push(t) ==
    /\ Len(pushed) < MaxPush
    /\ data' = Append(data, t)
    /\ pushed' = Append(pushed, t)
    /\ waiter' = NoWaker
    /\ wakes' = IF waiter /= NoWaker
                THEN [wakes EXCEPT ![waiter] = @ + 1]
                ELSE wakes
    /\ qlast' = [op |-> "push", ret |-> t, by |-> 0, woke |-> waiter]
    /\ UNCHANGED <<fut, popped, cleared>>
    /\ UNCHANGED notq

\* AsyncQueue::try_pop: pop_front; ret 0 stands for None
TryPop ==
    /\ IF data /= <<>>
       THEN /\ data' = Tail(data)
            /\ popped' = Append(popped, Head(data))
            /\ qlast' = [op |-> "try_pop", ret |-> Head(data), by |-> 0, woke |-> NoWaker]
       ELSE /\ qlast' = [op |-> "try_pop", ret |-> 0, by |-> 0, woke |-> NoWaker]
            /\ UNCHANGED <<data, popped>>
    /\ UNCHANGED <<waiter, fut, pushed, wakes, cleared>>
    /\ UNCHANGED notq

\* AsyncQueue::pop: constructs the future, touches nothing else
Pop(f) ==
    /\ fut[f] = "none"
    /\ \A g \in Futs : g < f => fut[g] /= "none"
    /\ fut' = [fut EXCEPT ![f] = "created"]
    /\ qlast' = [op |-> "pop", ret |-> 0, by |-> f, woke |-> NoWaker]
    /\ UNCHANGED <<data, waiter, pushed, popped, wakes, cleared>>
    /\ UNCHANGED notq

\* (mutant) poll that stores its waker only in an empty slot
Poll_KeepFirst(f) ==
    /\ fut[f] \in {"created", "pending"}
    /\ IF data /= <<>>
       THEN /\ data' = Tail(data)
            /\ popped' = Append(popped, Head(data))
            /\ fut' = [fut EXCEPT ![f] = "ready"]
            /\ qlast' = [op |-> "poll", ret |-> Head(data), by |-> f, woke |-> NoWaker]
            /\ UNCHANGED waiter
       ELSE /\ waiter' = IF waiter = NoWaker THEN f ELSE waiter
            /\ fut' = [fut EXCEPT ![f] = "pending"]
            /\ qlast' = [op |-> "poll", ret |-> 0, by |-> f, woke |-> NoWaker]
            /\ UNCHANGED <<data, popped>>
    /\ UNCHANGED <<pushed, wakes, cleared>>
    /\ UNCHANGED notq

\* (mutant) poll that stores its waker before it looks at the queue
Poll_RegisterFirst(f) ==
    /\ fut[f] \in {"created", "pending"}
    /\ waiter' = f
    /\ IF data /= <<>>
       THEN /\ data' = Tail(data)
            /\ popped' = Append(popped, Head(data))
            /\ fut' = [fut EXCEPT ![f] = "ready"]
            /\ qlast' = [op |-> "poll", ret |-> Head(data), by |-> f, woke |-> NoWaker]
       ELSE /\ fut' = [fut EXCEPT ![f] = "pending"]
            /\ qlast' = [op |-> "poll", ret |-> 0, by |-> f, woke |-> NoWaker]
            /\ UNCHANGED <<data, popped>>
    /\ UNCHANGED <<pushed, wakes, cleared>>
    /\ UNCHANGED notq

\* AsyncQueuePop::poll: Ready(front) or store the caller's waker and Pending
Poll(f) ==
    /\ fut[f] \in {"created", "pending"}
    /\ IF data /= <<>>
       THEN /\ data' = Tail(data)
            /\ popped' = Append(popped, Head(data))
            /\ fut' = [fut EXCEPT ![f] = "ready"]
            /\ qlast' = [op |-> "poll", ret |-> Head(data), by |-> f, woke |-> NoWaker]
            /\ UNCHANGED waiter
       ELSE /\ waiter' = f
            /\ fut' = [fut EXCEPT ![f] = "pending"]
            /\ qlast' = [op |-> "poll", ret |-> 0, by |-> f, woke |-> NoWaker]
            /\ UNCHANGED <<data, popped>>
    /\ UNCHANGED <<pushed, wakes, cleared>>
    /\ UNCHANGED notq

\* Dropping an unfinished AsyncQueuePop: the type has no Drop impl, so only
\* the future itself goes away
DropPop(f) ==
    /\ fut[f] \in {"created", "pending"}
    /\ fut' = [fut EXCEPT ![f] = "dropped"]
    /\ qlast' = [op |-> "drop", ret |-> 0, by |-> f, woke |-> NoWaker]
    /\ UNCHANGED <<data, waiter, pushed, popped, wakes, cleared>>
    /\ UNCHANGED notq

\* (mutant) clear that wakes the waiter it takes
Clear_Wake ==
    /\ data' = <<>>
    /\ waiter' = NoWaker
    /\ wakes' = IF waiter /= NoWaker
                THEN [wakes EXCEPT ![waiter] = @ + 1]
                ELSE wakes
    /\ cleared' = TRUE
    /\ qlast' = [op |-> "clear", ret |-> 0, by |-> 0, woke |-> NoWaker]
    /\ UNCHANGED <<fut, pushed, popped>>
    /\ UNCHANGED notq

\* AsyncQueue::clear: take the data, take the waiter (without waking it)
Clear ==
    /\ data' = <<>>
    /\ waiter' = NoWaker
    /\ cleared' = TRUE
    /\ qlast' = [op |-> "clear", ret |-> 0, by |-> 0, woke |-> NoWaker]
    /\ UNCHANGED <<fut, pushed, popped, wakes>>
    /\ UNCHANGED notq

QPush == \E t \in {Len(pushed) + 1} : Push(t)
QPop == \E f \in Futs : Pop(f)
QPoll == \E f \in Futs : Poll(f)
QDrop == \E f \in Futs : DropPop(f)

QNext == QPush \/ TryPop \/ QPop \/ QPoll \/ QDrop \/ Clear

\* ---- a single consumer task: loop { let x = queue.pop().await; .. } ----
\* The task uses future slot 1 for the pop it is awaiting. The executor
\* polls the task when it is first run and again each time its waker was
\* invoked since it suspended.
Consumer == 1
Woken == fut[Consumer] = "pending" /\ wakes[Consumer] > 0

\* queue.pop()
CPop == Pop(Consumer)

\* .await: the first poll of the future
CPoll == fut[Consumer] = "created" /\ Poll(Consumer)

\* the executor polls the woken task again
CRepoll == Woken /\ Poll(Consumer)

\* the element is handled and the loop starts over; the finished future
\* is gone and the next pop() is a new one
CLoop ==
    /\ fut[Consumer] = "ready"
    /\ fut' = [fut EXCEPT ![Consumer] = "none"]
    /\ wakes' = [wakes EXCEPT ![Consumer] = 0]
    /\ qlast' = [op |-> "loop", ret |-> 0, by |-> Consumer, woke |-> NoWaker]
    /\ UNCHANGED <<data, waiter, pushed, popped, cleared>>
    /\ UNCHANGED notq

ConsumerStep == CPop \/ CPoll \/ CRepoll \/ CLoop

\* a producer pushes an element (its own number) at any time
Producers == 1 .. MaxProd
Produce == \E t \in Producers : Push(t)

----------------------------------------------------------------------------
(* A client connection: its object registry and its protocol objects *)

ClientIds == 1 .. MaxId
\* ids the server allocates lie in a range disjoint from the client's
MIN_SERVER_ID == 100
ServerIds == (MIN_SERVER_ID + 1) .. (MIN_SERVER_ID + MaxSrv)
Ids == ClientIds \cup ServerIds

NoObj == "none"
Us == 1         \* the client::id of the connection modelled
Other == 2      \* some other client

\* The state the handlers work on, as one record; res is what the call
\* returned ("ok" or the error) and events what it emitted.
St ==
    [ objects |-> objects, version |-> version, xdgOut |-> xdgOut,
      logLevel |-> logLevel, running |-> running,
      pointers |-> pointers, appCursor |-> appCursor, surfRole |-> surfRole,
      hotspot |-> hotspot, offerSrc |-> offerSrc, clearCalls |-> clearCalls,
      events |-> <<>>, res |-> "ok" ]

Err(S, e) == [S EXCEPT !.res = e]
Emit(S, ev) == [S EXCEPT !.events = Append(@, ev)]

\* ZwpPrimarySelectionOfferV1::disconnect: source.set(None) hands back the
\* old value; clear_offer is called on it if there was one
disconnect(S, id) ==
    IF S.offerSrc[id] > 0
    THEN [S EXCEPT !.offerSrc[id] = 0, !.clearCalls[id] = @ + 1]
    ELSE [S EXCEPT !.offerSrc[id] = 0]

\* Object::break_loops: only the selection offer overrides it
break_loops(S, id, kind) ==
    IF kind = "zwp_primary_selection_offer_v1" THEN disconnect(S, id) ELSE S

\* Client::add_client_obj / add_server_obj: fails if the id is live
add_obj(S, id, kind) ==
    IF S.objects[id] /= NoObj
    THEN Err(S, "IdAlreadyInUse")
    ELSE [S EXCEPT !.objects[id] = kind]
add_client_obj(S, id, kind) == add_obj(S, id, kind)
add_server_obj(S, id, kind) == add_obj(S, id, kind)

\* Client::remove_obj: detaches the id (the registry's reference to the
\* object, and with it the object's version field, goes away) and runs the
\* object's shutdown hook
remove_obj(S, id) ==
    IF S.objects[id] = NoObj
    THEN Err(S, "UnknownId")
    ELSE break_loops([S EXCEPT !.objects[id] = NoObj, !.version[id] = 0],
                     id, S.objects[id])

\* Client::lookup of an id as an object of one interface
lookup(S, id, kind) == id \in Ids /\ S.objects[id] = kind

\* ---- jay_compositor ----

\* opcodes, in the order of the request table
JC_DESTROY == 0
JC_GET_LOG_FILE == 1
JC_QUIT == 2
JC_SET_LOG_LEVEL == 3

\* Global for JayCompositorGlobal
JayCompositorGlobal_singleton == TRUE
JayCompositorGlobal_version == 1
JayCompositorGlobal_secure == TRUE

\* JayCompositorGlobal::bind_
JayCompositorGlobal_bind_(S, id, v) == add_client_obj(S, id, "jay_compositor")

\* JayCompositor::destroy
JayCompositor_destroy(S, self, req) ==
    IF ~req.wf THEN Err(S, "ParseError")
    ELSE remove_obj(S, self)

\* JayCompositor::get_log_file; req.a is the new id
JayCompositor_get_log_file(S, self, req) ==
    IF ~req.wf THEN Err(S, "ParseError")
    ELSE LET S1 == add_client_obj(S, req.a, "jay_log_file")
         IN  IF S1.res /= "ok" THEN S1
             ELSE Emit(S1, <<"path", req.a>>)

\* JayCompositor::quit
JayCompositor_quit(S, self, req) ==
    IF ~req.wf THEN Err(S, "ParseError")
    ELSE [S EXCEPT !.running = FALSE]

\* JayCompositor::set_log_level; req.a is the level
LogLevels == {"Error", "Warn", "Info", "Debug", "Trace"}
JayCompositor_set_log_level(S, self, req) ==
    IF ~req.wf THEN Err(S, "ParseError")
    ELSE IF req.a \notin LogLevels THEN Err(S, "UnknownLogLevel")
    ELSE [S EXCEPT !.logLevel = req.a]

\* ---- zxdg_output_manager_v1 ----

XM_DESTROY == 0
XM_GET_XDG_OUTPUT == 1

\* (mutant) a global that does not declare itself a singleton
Global_singleton_False == FALSE

\* Global for ZxdgOutputManagerV1Global (secure is the trait's default)
ZxdgOutputManagerV1Global_singleton == TRUE
ZxdgOutputManagerV1Global_version == 3
ZxdgOutputManagerV1Global_secure == FALSE

\* ZxdgOutputManagerV1Global::bind_
ZxdgOutputManagerV1Global_bind_(S, id, v) ==
    LET S1 == add_client_obj(S, id, "zxdg_output_manager_v1")
    IN  IF S1.res /= "ok" THEN S1 ELSE [S1 EXCEPT !.version[id] = v]

\* ZxdgOutputManagerV1::destroy
ZxdgOutputManagerV1_destroy(S, self, req) ==
    IF ~req.wf THEN Err(S, "ParseError")
    ELSE remove_obj(S, self)

\* (mutant) get_xdg_output that sends the updates and enters the object in
\* the output's map before it registers it
ZxdgOutputManagerV1_get_xdg_output_RegisterLast(S, self, req) ==
    IF ~req.wf THEN Err(S, "ParseError")
    ELSE IF ~lookup(S, req.b, "wl_output") THEN Err(S, "UnknownId")
    ELSE add_client_obj([Emit(S, <<"updates", req.a>>) EXCEPT
                            !.version[req.a] = S.version[self],
                            !.xdgOut[req.a] = req.b],
                        req.a, "zxdg_output_v1")

\* ZxdgOutputManagerV1::get_xdg_output; req.a is the new id, req.b the output
ZxdgOutputManagerV1_get_xdg_output(S, self, req) ==
    IF ~req.wf THEN Err(S, "ParseError")
    ELSE IF ~lookup(S, req.b, "wl_output") THEN Err(S, "UnknownId")
    ELSE LET S1 == add_client_obj(S, req.a, "zxdg_output_v1")
         IN  IF S1.res /= "ok" THEN S1
             ELSE [Emit(S1, <<"updates", req.a>>) EXCEPT
                      !.version[req.a] = S.version[self],
                      !.xdgOut[req.a] = req.b]

\* ---- wl_pointer ----

PT_SET_CURSOR == 0
PT_RELEASE == 1

\* Client::valid_serial: the serial is one the server has handed out
valid_serial(s) == s <= serial

\* WlSurface::get_cursor: gives the surface the cursor role, unless it has
\* another role already
get_cursor(S, surface) ==
    IF S.surfRole[surface] \notin {"none", "cursor"}
    THEN Err(S, "IncompatibleRole")
    ELSE [S EXCEPT !.surfRole[surface] = "cursor"]

\* CursorSurface::set_hotspot
set_hotspot(S, surface, h) == [S EXCEPT !.hotspot[surface] = h]

\* WlSeatGlobal::set_app_cursor; 0 stands for None
set_app_cursor(S, cursor) == [S EXCEPT !.appCursor = cursor]

\* WlPointer::set_cursor; req.a is the serial, req.b the surface (0: none),
\* req.c the hotspot
WlPointer_set_cursor(S, self, req) ==
    IF ~req.wf THEN Err(S, "ParseError")
    ELSE IF ~valid_serial(req.a) THEN S
    ELSE LET S1 == IF req.b = 0 THEN S
                   ELSE IF ~lookup(S, req.b, "wl_surface") THEN Err(S, "UnknownId")
                   ELSE LET S2 == get_cursor(S, req.b)
                        IN  IF S2.res /= "ok" THEN S2
                            ELSE set_hotspot(S2, req.b, req.c)
         IN  IF S1.res /= "ok" THEN S1
             ELSE IF focus /= Us THEN S1
             ELSE IF req.a /= lastEnter THEN S1
             ELSE set_app_cursor(S1, req.b)

\* (mutant) release that leaves the pointer in the seat's set
WlPointer_release_RegistryOnly(S, self, req) ==
    IF ~req.wf THEN Err(S, "ParseError")
    ELSE remove_obj(S, self)

\* WlPointer::release
WlPointer_release(S, self, req) ==
    IF ~req.wf THEN Err(S, "ParseError")
    ELSE remove_obj([S EXCEPT !.pointers = @ \ {self}], self)

\* ---- zwp_primary_selection_offer_v1 ----

OF_RECEIVE == 0
OF_DESTROY == 1

TheSource == 1      \* the selection source that is being offered

\* Client::new_id: the lowest server id that is not live; 0 if there is none
new_id(S) ==
    LET free == {i \in ServerIds : S.objects[i] = NoObj}
    IN  IF free = {} THEN 0 ELSE CHOOSE i \in free : \A j \in free : i <= j

\* (mutant) the closure of create without the sent_offer flag: data_offer
\* goes to every device
CreateEventsFor_NoFlag(dev, id) ==
    <<(<<"data_offer", dev, id>>)>>
    \o [i \in 1 .. Len(mimeTypes) |-> <<"offer", id, mimeTypes[i]>>]
    \o <<(<<"selection", dev, id>>)>>

\* what the closure of create sends for device dev (devices are visited in
\* the order 1, 2, ...; the first one is the one that has sent_offer false)
CreateEventsFor(dev, id) ==
    (IF dev = 1 THEN <<(<<"data_offer", dev, id>>)>> ELSE <<>>)
    \o [i \in 1 .. Len(mimeTypes) |-> <<"offer", id, mimeTypes[i]>>]
    \o <<(<<"selection", dev, id>>)>>

RECURSIVE CreateEvents(_, _)
CreateEvents(n, id) ==
    IF n = 0 THEN <<>> ELSE CreateEvents(n - 1, id) \o CreateEventsFor(n, id)

\* (mutant) create that leaves the speculative offer in the registry when no
\* device was notified
ZwpPrimarySelectionOfferV1_create_NoRemove(S, src) ==
    LET id == new_id(S)
        S1 == [S EXCEPT !.offerSrc[id] = src, !.clearCalls[id] = 0,
                        !.events = CreateEvents(devices, id)]
        S2 == [add_server_obj(S1, id, "zwp_primary_selection_offer_v1")
                  EXCEPT !.res = "ok"]
    IN  IF id = 0 THEN Err(S, "NoId")
        ELSE IF devices = 0 THEN Err(S2, "None")
        ELSE [S2 EXCEPT !.res = "Some"]

\* ZwpPrimarySelectionOfferV1::create; the result is "Some", "None", or
\* "NoId" for the None returned after client.error when no id is free
ZwpPrimarySelectionOfferV1_create(S, src) ==
    LET id == new_id(S)
        S1 == [S EXCEPT !.offerSrc[id] = src, !.clearCalls[id] = 0,
                        !.events = CreateEvents(devices, id)]
        S2 == [add_server_obj(S1, id, "zwp_primary_selection_offer_v1")
                  EXCEPT !.res = "ok"]
    IN  IF id = 0 THEN Err(S, "NoId")
        ELSE IF devices = 0 THEN [remove_obj(S2, id) EXCEPT !.res = "None"]
        ELSE [S2 EXCEPT !.res = "Some"]

\* (mutant) receive that forwards to the source the offer was created for,
\* whether the offer still refers to it or not
ZwpPrimarySelectionOfferV1_receive_NoSourceCheck(S, self, req) ==
    IF ~req.wf THEN Err(S, "ParseError")
    ELSE Emit(Emit(S, <<"send", TheSource, req.a, req.b>>), <<"flush", TheSource>>)

\* ZwpPrimarySelectionOfferV1::receive; req.a is the mime type, req.b the
\* file descriptor
ZwpPrimarySelectionOfferV1_receive(S, self, req) ==
    IF ~req.wf THEN Err(S, "ParseError")
    ELSE IF S.offerSrc[self] > 0
    THEN Emit(Emit(S, <<"send", S.offerSrc[self], req.a, req.b>>),
              <<"flush", S.offerSrc[self]>>)
    ELSE S

\* (mutant) destroy whose disconnect reads the source without clearing it
ZwpPrimarySelectionOfferV1_destroy_GetSource(S, self, req) ==
    IF ~req.wf THEN Err(S, "ParseError")
    ELSE remove_obj(
            IF S.offerSrc[self] > 0
            THEN [S EXCEPT !.clearCalls[self] = @ + 1]
            ELSE S, self)

\* (mutant) destroy that disconnects before it decodes the request
ZwpPrimarySelectionOfferV1_destroy_DisconnectFirst(S, self, req) ==
    IF ~req.wf THEN Err(disconnect(S, self), "ParseError")
    ELSE remove_obj(disconnect(S, self), self)

\* ZwpPrimarySelectionOfferV1::destroy
ZwpPrimarySelectionOfferV1_destroy(S, self, req) ==
    IF ~req.wf THEN Err(S, "ParseError")
    ELSE remove_obj(disconnect(S, self), self)

\* ---- dispatch ----

\* the request tables of object_base!, in opcode order
RequestTable(kind) ==
    CASE kind = "jay_compositor" ->
            <<"destroy", "get_log_file", "quit", "set_log_level">>
      [] kind = "zxdg_output_manager_v1" -> <<"destroy", "get_xdg_output">>
      [] kind = "wl_pointer" -> <<"set_cursor", "release">>
      [] kind = "zwp_primary_selection_offer_v1" -> <<"receive", "destroy">>

HandledKinds ==
    {"jay_compositor", "zxdg_output_manager_v1", "wl_pointer",
     "zwp_primary_selection_offer_v1"}

\* (mutant) an accepted request count that is one too high
JayCompositor_num_requests_OneMore == JC_SET_LOG_LEVEL + 2

\* Object::num_requests
JayCompositor_num_requests == JC_SET_LOG_LEVEL + 1
ZxdgOutputManagerV1_num_requests == XM_GET_XDG_OUTPUT + 1
WlPointer_num_requests == PT_RELEASE + 1
ZwpPrimarySelectionOfferV1_num_requests == OF_DESTROY + 1

num_requests(kind) ==
    CASE kind = "jay_compositor" -> JayCompositor_num_requests
      [] kind = "zxdg_output_manager_v1" -> ZxdgOutputManagerV1_num_requests
      [] kind = "wl_pointer" -> WlPointer_num_requests
      [] kind = "zwp_primary_selection_offer_v1" -> ZwpPrimarySelectionOfferV1_num_requests

\* the handler the request table names for (kind, opcode)
handle_request(S, kind, self, opcode, req) ==
    CASE kind = "jay_compositor" /\ opcode = JC_DESTROY -> JayCompositor_destroy(S, self, req)
      [] kind = "jay_compositor" /\ opcode = JC_GET_LOG_FILE -> JayCompositor_get_log_file(S, self, req)
      [] kind = "jay_compositor" /\ opcode = JC_QUIT -> JayCompositor_quit(S, self, req)
      [] kind = "jay_compositor" /\ opcode = JC_SET_LOG_LEVEL -> JayCompositor_set_log_level(S, self, req)
      [] kind = "zxdg_output_manager_v1" /\ opcode = XM_DESTROY -> ZxdgOutputManagerV1_destroy(S, self, req)
      [] kind = "zxdg_output_manager_v1" /\ opcode = XM_GET_XDG_OUTPUT -> ZxdgOutputManagerV1_get_xdg_output(S, self, req)
      [] kind = "wl_pointer" /\ opcode = PT_SET_CURSOR -> WlPointer_set_cursor(S, self, req)
      [] kind = "wl_pointer" /\ opcode = PT_RELEASE -> WlPointer_release(S, self, req)
      [] kind = "zwp_primary_selection_offer_v1" /\ opcode = OF_RECEIVE -> ZwpPrimarySelectionOfferV1_receive(S, self, req)
      [] kind = "zwp_primary_selection_offer_v1" /\ opcode = OF_DESTROY -> ZwpPrimarySelectionOfferV1_destroy(S, self, req)
      [] OTHER -> Err(S, "Panic")

\* the dispatch of one request: the opcode is checked against the object's
\* accepted request count before the handler is looked up
dispatch(S, self, opcode, req) ==
    LET kind == S.objects[self]
    IN  IF kind = NoObj THEN Err(S, "InvalidObject")
        ELSE IF opcode >= num_requests(kind) THEN Err(S, "InvalidRequest")
        ELSE handle_request(S, kind, self, opcode, req)

\* Globals::bind as wl_registry reaches it: the version, the secure flag and
\* the singleton flag are checked before the global's bind_ runs
GlobalKind(g) ==
    IF g = "jay_compositor" THEN "jay_compositor" ELSE "zxdg_output_manager_v1"
Global_singleton(g) ==
    IF g = "jay_compositor" THEN JayCompositorGlobal_singleton
    ELSE ZxdgOutputManagerV1Global_singleton
Global_version(g) ==
    IF g = "jay_compositor" THEN JayCompositorGlobal_version
    ELSE ZxdgOutputManagerV1Global_version
Global_secure(g) ==
    IF g = "jay_compositor" THEN JayCompositorGlobal_secure
    ELSE ZxdgOutputManagerV1Global_secure
Global_bind_(S, g, id, v) ==
    IF g = "jay_compositor" THEN JayCompositorGlobal_bind_(S, id, v)
    ELSE ZxdgOutputManagerV1Global_bind_(S, id, v)

bind(S, g, id, v) ==
    IF v > Global_version(g) THEN Err(S, "InvalidVersion")
    ELSE IF Global_secure(g) /\ ~privileged THEN Err(S, "SecureGlobal")
    ELSE IF Global_singleton(g) /\ \E i \in Ids : S.objects[i] = GlobalKind(g)
    THEN Err(S, "SingletonBound")
    ELSE Global_bind_(S, g, id, v)

\* connection teardown: every registered object's break_loops, then the
\* registry is emptied
RECURSIVE BreakAll(_, _)
BreakAll(S, ids) ==
    IF ids = {} THEN S
    ELSE LET i == CHOOSE j \in ids : TRUE
         IN  BreakAll(break_loops(S, i, S.objects[i]), ids \ {i})
teardown(S) ==
    [BreakAll(S, {i \in Ids : S.objects[i] /= NoObj}) EXCEPT
        !.objects = [i \in Ids |-> NoObj]]

----------------------------------------------------------------------------
(* The actions on a connection *)

\* the state a call leaves
Apply(S) ==
    /\ objects' = S.objects
    /\ version' = S.version
    /\ xdgOut' = S.xdgOut
    /\ logLevel' = S.logLevel
    /\ running' = S.running
    /\ pointers' = S.pointers
    /\ appCursor' = S.appCursor
    /\ surfRole' = S.surfRole
    /\ hotspot' = S.hotspot
    /\ offerSrc' = S.offerSrc
    /\ clearCalls' = S.clearCalls
    /\ events' = S.events

\* an error that reaches the dispatch boundary is fatal to the connection
ConnAfter(S) == IF S.res \in {"ok", "Some", "None"} THEN "up" ELSE "failed"

Req(wf, a, b, c) == [wf |-> wf, a |-> a, b |-> b, c |-> c]
NoReq == Req(TRUE, 0, 0, 0)
Last(op, id, opcode, req, res) ==
    [op |-> op, id |-> id, opcode |-> opcode, req |-> req, res |-> res]

Hotspots == {<<0, 0>>, <<1, 2>>}
LevelInputs == {"Error", "Trace", "Verbose"}
Versions ==
    {JayCompositorGlobal_version, ZxdgOutputManagerV1Global_version,
     ZxdgOutputManagerV1Global_version + 1}
Opcodes == 0 .. Len(RequestTable("jay_compositor"))

\* file descriptors that come with a receive request
Fds == {3, 4}

\* the decoded requests tried for (kind, opcode); wf: whether the payload
\* decodes (parse and eof succeed)
Reqs(kind, opcode) ==
    CASE kind = "jay_compositor" /\ opcode = JC_GET_LOG_FILE ->
            {Req(wf, a, 0, 0) : wf \in BOOLEAN, a \in ClientIds}
      [] kind = "jay_compositor" /\ opcode = JC_SET_LOG_LEVEL ->
            {Req(wf, a, 0, 0) : wf \in BOOLEAN, a \in LevelInputs}
      [] kind = "zxdg_output_manager_v1" /\ opcode = XM_GET_XDG_OUTPUT ->
            {Req(wf, a, b, 0) : wf \in BOOLEAN, a \in ClientIds, b \in ClientIds}
      [] kind = "wl_pointer" /\ opcode = PT_SET_CURSOR ->
            {Req(wf, a, b, c) : wf \in BOOLEAN, a \in 0 .. MaxSerial,
                                b \in {0} \cup ClientIds, c \in Hotspots}
      [] kind = "zwp_primary_selection_offer_v1" /\ opcode = OF_RECEIVE ->
            {Req(wf, a, b, 0) : wf \in BOOLEAN, a \in {"text/plain"}, b \in Fds}
      [] OTHER -> {Req(wf, 0, 0, 0) : wf \in BOOLEAN}

envvars == <<privileged, focus, lastEnter, serial, devices, mimeTypes>>

\* a request of the client arrives and is dispatched (by the event loop,
\* while it runs)
Request ==
    /\ conn = "up"
    /\ running
    /\ \E id \in Ids, opcode \in Opcodes :
        /\ objects[id] \in HandledKinds
        /\ \E req \in Reqs(objects[id], opcode) :
            LET S == dispatch(St, id, opcode, req)
            IN  /\ Apply(S)
                /\ conn' = ConnAfter(S)
                /\ last' = Last("request", id, opcode, req, S.res)
    /\ UNCHANGED envvars
    /\ UNCHANGED notc

\* the client binds a global: wl_registry.bind(name, version, new id)
Bind ==
    /\ conn = "up"
    /\ running
    /\ \E g \in {"jay_compositor", "zxdg_output_manager_v1"},
          id \in ClientIds, v \in Versions :
            LET S == bind(St, g, id, v)
            IN  /\ Apply(S)
                /\ conn' = ConnAfter(S)
                /\ last' = Last("bind", id, 0, Req(TRUE, g, v, 0), S.res)
    /\ UNCHANGED envvars
    /\ UNCHANGED notc

\* the connection is torn down (the client went away, or after an error)
Teardown ==
    /\ conn \in {"up", "failed"}
    /\ Apply(teardown(St))
    /\ conn' = "closed"
    /\ last' = Last("teardown", 0, 0, NoReq, "ok")
    /\ UNCHANGED envvars
    /\ UNCHANGED notc

\* the seat hands the pointer focus to a surface of this or of another
\* client; the enter event carries a fresh serial
Enter ==
    /\ conn = "up"
    /\ serial < MaxSerial
    /\ serial' = serial + 1
    /\ \E c \in {Us, Other} :
        /\ focus' = c
        /\ lastEnter' = IF c = Us THEN serial + 1 ELSE lastEnter
    /\ last' = Last("enter", 0, 0, NoReq, "ok")
    /\ events' = <<>>
    /\ UNCHANGED <<conn, objects, version, xdgOut, logLevel, running, pointers,
                   appCursor, surfRole, hotspot, offerSrc, clearCalls>>
    /\ UNCHANGED <<privileged, devices, mimeTypes>>
    /\ UNCHANGED notc

\* some other event (a button press, say) takes the next serial
NextSerial ==
    /\ conn = "up"
    /\ serial < MaxSerial
    /\ serial' = serial + 1
    /\ last' = Last("serial", 0, 0, NoReq, "ok")
    /\ events' = <<>>
    /\ UNCHANGED <<conn, objects, version, xdgOut, logLevel, running, pointers,
                   appCursor, surfRole, hotspot, offerSrc, clearCalls>>
    /\ UNCHANGED <<privileged, focus, lastEnter, devices, mimeTypes>>
    /\ UNCHANGED notc

\* the seat advertises the selection source to the client
Create ==
    /\ conn = "up"
    /\ LET S == ZwpPrimarySelectionOfferV1_create(St, TheSource)
       IN  /\ Apply(S)
           /\ conn' = ConnAfter(S)
           /\ last' = Last("create", new_id(St), 0, NoReq, S.res)
    /\ UNCHANGED envvars
    /\ UNCHANGED notc

\* break_loops is called on an offer that exists (whether registered or not)
OfferBreakLoops ==
    /\ \E id \in ServerIds :
        /\ offerSrc[id] >= 0
        /\ Apply(break_loops(St, id, "zwp_primary_selection_offer_v1"))
        /\ last' = Last("break_loops", id, 0, NoReq, "ok")
    /\ UNCHANGED conn
    /\ UNCHANGED envvars
    /\ UNCHANGED notc

\* a connection in a given situation
CInit(priv, objs, vers, ptrs, roles, offs, devs, mts) ==
    /\ conn = "up"
    /\ privileged = priv
    /\ objects = objs
    /\ version = vers
    /\ xdgOut = [i \in Ids |-> 0]
    /\ logLevel = "Info"
    /\ running = TRUE
    /\ pointers = ptrs
    /\ appCursor = 0
    /\ surfRole = roles
    /\ hotspot = [i \in Ids |-> <<0, 0>>]
    /\ focus = Other
    /\ lastEnter = 0
    /\ serial = 0
    /\ offerSrc = offs
    /\ clearCalls = [i \in ServerIds |-> 0]
    /\ devices = devs
    /\ mimeTypes = mts
    /\ last = Last("new", 0, 0, NoReq, "ok")
    /\ events = <<>>

NoObjects == [i \in Ids |-> NoObj]
NoVersions == [i \in Ids |-> 0]
NoRoles == [i \in Ids |-> "none"]
NoOffers == [i \in ServerIds |-> -1]
MimeTypes == <<"text/plain", "text/html", "image/png">>

\* no connection of interest
CIdle == CInit(FALSE, NoObjects, NoVersions, {}, NoRoles, NoOffers, 0, <<>>)

\* a fresh connection, privileged or not, that may have bound a wl_output
CInitGlobals ==
    \E priv \in BOOLEAN, out \in BOOLEAN :
        CInit(priv,
              [i \in Ids |-> IF i = 1 /\ out THEN "wl_output" ELSE NoObj],
              NoVersions, {}, NoRoles, NoOffers, 0, <<>>)

\* a connection with a wl_pointer of the seat, a surface without a role and
\* a surface that is a toplevel
CInitSeat ==
    CInit(FALSE,
          [i \in Ids |-> CASE i = 1 -> "wl_pointer"
                           [] i \in {2, 3} -> "wl_surface"
                           [] OTHER -> NoObj],
          NoVersions, {1},
          [i \in Ids |-> IF i = 3 THEN "xdg_toplevel" ELSE "none"],
          NoOffers, 0, <<>>)

\* a connection with some primary-selection devices on the seat, and a
\* source with some mime types
CInitOffer ==
    \E devs \in 0 .. MaxDev, n \in 0 .. MaxMime :
        CInit(FALSE, NoObjects, NoVersions, {}, NoRoles, NoOffers,
              devs, SubSeq(MimeTypes, 1, n))

\* a connection that holds one object of each interface with handlers
CInitDispatch ==
    CInit(TRUE,
          [i \in Ids |-> CASE i = 1 -> "jay_compositor"
                           [] i = 2 -> "zxdg_output_manager_v1"
                           [] i = 3 -> "wl_pointer"
                           [] i = 4 -> "wl_surface"
                           [] i = MIN_SERVER_ID + 1 -> "zwp_primary_selection_offer_v1"
                           [] OTHER -> NoObj],
          [i \in Ids |-> IF i = 2 THEN ZxdgOutputManagerV1Global_version ELSE 0],
          {3}, NoRoles,
          [i \in ServerIds |-> IF i = MIN_SERVER_ID + 1 THEN TheSource ELSE -1],
          1, SubSeq(MimeTypes, 1, 1))

----------------------------------------------------------------------------
(* PendingScroll: the scroll events of a seat collected until the frame *)

\* Option<T>: None is the empty tuple, Some(v) the tuple of v
None == <<>>
Some(v) == <<v>>

WHEEL == 0
\* Fixed values by their raw i32 (value * 256): 1.5 and -2.0
AxisValues == {384, -512}
DiscreteValues == {1}
Sources == {WHEEL}
Axes == 1 .. 2      \* discrete[0], discrete[1] and so on, counted from 1

\* #[derive(Default)]
PendingScroll_default ==
    [ discrete |-> <<None, None>>, axis |-> <<None, None>>,
      stop |-> <<FALSE, FALSE>>, source |-> None ]

\* Cell::take: hands out the value and leaves the default in the cell
CellTake(v, dflt) == [ret |-> v, left |-> dflt]
\* Cell::get: hands out a copy and leaves the cell as it is
CellGet(v) == [ret |-> v, left |-> v]

\* what take builds from the seven cells read: the value returned and the
\* value left behind
PendingScroll_of(d0, d1, a0, a1, s0, s1, so) ==
    [ ret  |-> [ discrete |-> <<d0.ret, d1.ret>>, axis |-> <<a0.ret, a1.ret>>,
                 stop |-> <<s0.ret, s1.ret>>, source |-> so.ret ],
      left |-> [ discrete |-> <<d0.left, d1.left>>, axis |-> <<a0.left, a1.left>>,
                 stop |-> <<s0.left, s1.left>>, source |-> so.left ] ]

\* (mutant) take that reads the source with get
PendingScroll_take_GetSource(s) ==
    PendingScroll_of(CellTake(s.discrete[1], None), CellTake(s.discrete[2], None),
                     CellTake(s.axis[1], None), CellTake(s.axis[2], None),
                     CellTake(s.stop[1], FALSE), CellTake(s.stop[2], FALSE),
                     CellGet(s.source))

\* PendingScroll::take
PendingScroll_take(s) ==
    PendingScroll_of(CellTake(s.discrete[1], None), CellTake(s.discrete[2], None),
                     CellTake(s.axis[1], None), CellTake(s.axis[2], None),
                     CellTake(s.stop[1], FALSE), CellTake(s.stop[2], FALSE),
                     CellTake(s.source, None))

\* a write to one cell: the field, the axis (0 for source) and the value,
\* written as <<v>>
Write(f, a, v) == [f |-> f, a |-> a, v |-> v]
NumberWrites ==
    {Write("discrete", a, Some(v)) : a \in Axes, v \in DiscreteValues}
    \cup {Write("axis", a, Some(v)) : a \in Axes, v \in AxisValues}
    \cup {Write("source", 0, Some(v)) : v \in Sources}
StopWrites == {Write("stop", a, <<TRUE>>) : a \in Axes}

\* Cell::set on one of the cells
CellSet(s, w) ==
    CASE w.f = "discrete" -> [s EXCEPT !.discrete[w.a] = w.v]
      [] w.f = "axis" -> [s EXCEPT !.axis[w.a] = w.v]
      [] w.f = "stop" -> [s EXCEPT !.stop[w.a] = w.v[1]]
      [] w.f = "source" -> [s EXCEPT !.source = w.v]

SInit ==
    /\ ps = PendingScroll_default
    /\ pslog = <<>>
    /\ pslast = [op |-> "new", ret |-> PendingScroll_default]
SIdle == SInit

\* an event is recorded in its cell
SWrite(w) ==
    /\ Len(pslog) < MaxWrites
    /\ ps' = CellSet(ps, w)
    /\ pslog' = Append(pslog, w)
    /\ pslast' = [op |-> "set", ret |-> PendingScroll_default]
    /\ UNCHANGED nots

\* an axis, discrete or source event
SSet == \E w \in NumberWrites : SWrite(w)
\* an axis stop event
SStop == \E w \in StopWrites : SWrite(w)

\* the frame: the pending scroll is taken
STake ==
    /\ ps' = PendingScroll_take(ps).left
    /\ pslog' = <<>>
    /\ pslast' = [op |-> "take", ret |-> PendingScroll_take(ps).ret]
    /\ UNCHANGED nots

SNext == SSet \/ SStop \/ STake

----------------------------------------------------------------------------
(* TestShmPool: the client side of a wl_shm_pool in the integration tests *)

PoolId == 1
\* sizes a test asks for, and the geometry of the buffers it creates
PoolSizes == {4, 8}
Offsets == {0, 4}
Heights == {1, 2}
Strides == {4}

\* what destroy does to the flag and the transport: [destroyed, sent]
PoolRes(d, m) == [destroyed |-> d, sent |-> m]

\* (mutant) destroy that sets the flag without looking at it
TestShmPool_destroy_NoCheck(d, m) ==
    PoolRes(TRUE, Append(m, <<"destroy", PoolId>>))

\* TestShmPool::destroy: destroyed.replace(true) hands back the old flag
TestShmPool_destroy(d, m) ==
    IF d THEN PoolRes(TRUE, m)
    ELSE PoolRes(TRUE, Append(m, <<"destroy", PoolId>>))

\* Drop for TestShmPool
TestShmPool_drop(d, m) == TestShmPool_destroy(d, m)

HInit ==
    /\ destroyed = FALSE
    /\ mem = 4
    /\ dropped = FALSE
    /\ sent = <<>>
    /\ calls = 0
    /\ buffers = 0
    /\ shlast = [op |-> "new", res |-> "ok"]
HIdle == HInit

\* pool.destroy()
HDestroy ==
    /\ ~dropped
    /\ calls < MaxDestroy
    /\ LET r == TestShmPool_destroy(destroyed, sent)
       IN  destroyed' = r.destroyed /\ sent' = r.sent
    /\ calls' = calls + 1
    /\ shlast' = [op |-> "destroy", res |-> "ok"]
    /\ UNCHANGED <<mem, dropped, buffers>>
    /\ UNCHANGED noth

\* the last reference to the pool goes away
HDrop ==
    /\ ~dropped
    /\ LET r == TestShmPool_drop(destroyed, sent)
       IN  destroyed' = r.destroyed /\ sent' = r.sent
    /\ dropped' = TRUE
    /\ shlast' = [op |-> "drop", res |-> "ok"]
    /\ UNCHANGED <<mem, calls, buffers>>
    /\ UNCHANGED noth

\* TestShmPool::resize: TestMem::grow refuses to shrink
HResize ==
    \E size \in PoolSizes :
        /\ ~dropped
        /\ Len(sent) < MaxSent
        /\ IF size < mem
           THEN /\ shlast' = [op |-> "resize", res |-> "Err"]
                /\ UNCHANGED <<mem, sent>>
           ELSE /\ mem' = size
                /\ sent' = Append(sent, <<"resize", PoolId, size>>)
                /\ shlast' = [op |-> "resize", res |-> "ok"]
        /\ UNCHANGED <<destroyed, dropped, calls, buffers>>
        /\ UNCHANGED noth

\* TestShmPool::create_buffer
HCreateBuffer ==
    \E offset \in Offsets, height \in Heights, stride \in Strides :
        /\ ~dropped
        /\ Len(sent) < MaxSent
        /\ IF offset + height * stride > mem
           THEN /\ shlast' = [op |-> "create_buffer", res |-> "Out-of-bounds buffer"]
                /\ UNCHANGED <<sent, buffers>>
           ELSE /\ buffers' = buffers + 1
                /\ sent' = Append(sent, <<"create_buffer", PoolId, buffers + 1,
                                          offset, height, stride>>)
                /\ shlast' = [op |-> "create_buffer", res |-> "ok"]
        /\ UNCHANGED <<destroyed, mem, dropped, calls>>
        /\ UNCHANGED noth

HNext == HDestroy \/ HDrop \/ HResize \/ HCreateBuffer

----------------------------------------------------------------------------
(* Specifications: one per part; the other parts do not move *)

InitQueue == QInit /\ PIdle /\ CIdle /\ SIdle /\ HIdle
SpecQueue == InitQueue /\ [][QNext]_vars

InitParser == PInit /\ QIdle /\ CIdle /\ SIdle /\ HIdle
SpecParser == InitParser /\ [][PNext]_vars

\* binding globals and using the objects bound
InitGlobals == CInitGlobals /\ QIdle /\ PIdle /\ SIdle /\ HIdle
NextGlobals == Bind \/ Request \/ Teardown
SpecGlobals == InitGlobals /\ [][NextGlobals]_vars

\* the pointer of a seat
InitSeat == CInitSeat /\ QIdle /\ PIdle /\ SIdle /\ HIdle
NextSeat == Enter \/ NextSerial \/ Request \/ Teardown
SpecSeat == InitSeat /\ [][NextSeat]_vars

\* primary-selection offers
InitOffer == CInitOffer /\ QIdle /\ PIdle /\ SIdle /\ HIdle
NextOffer == Create \/ OfferBreakLoops \/ Request \/ Teardown
SpecOffer == InitOffer /\ [][NextOffer]_vars

\* requests to objects of every interface
InitDispatch == CInitDispatch /\ QIdle /\ PIdle /\ SIdle /\ HIdle
NextDispatch == Request \/ Teardown
SpecDispatch == InitDispatch /\ [][NextDispatch]_vars

\* one consumer task looping on pop, producers pushing, no clear; the
\* executor runs a task that can run
InitConsumer == QInit /\ PIdle /\ CIdle /\ SIdle /\ HIdle
NextConsumer == Produce \/ CPop \/ CPoll \/ CRepoll \/ CLoop
SpecConsumer == InitConsumer /\ [][NextConsumer]_vars /\ WF_vars(ConsumerStep)

\* a shm pool of the integration tests
InitShmPool == HInit /\ QIdle /\ PIdle /\ CIdle /\ SIdle
SpecShmPool == InitShmPool /\ [][HNext]_vars

\* the pending scroll of a seat
InitScroll == SInit /\ QIdle /\ PIdle /\ CIdle /\ HIdle
SpecScroll == InitScroll /\ [][SNext]_vars

----------------------------------------------------------------------------
(* Claims about AsyncQueue, checked under SpecQueue *)

\* C1: with no clear, the elements returned by try_pop / pop so far are
\* exactly a prefix of the pushed sequence, in push order (nothing is
\* returned twice, skipped or reordered), and what is still queued is the
\* rest of the pushed sequence.
C1_FifoPrefix ==
    ~cleared =>
        /\ Len(popped) <= Len(pushed)
        /\ popped = Prefix(pushed, Len(popped))
        /\ popped \o data = pushed

\* C1 witness: three elements were pushed and all three returned, the
\* last one by a completed pop, with no clear.
C1_Witness ==
    /\ ~cleared
    /\ Len(popped) = 3
    /\ qlast.op = "poll" /\ qlast.ret = 3
    /\ \E f \in Futs : fut[f] = "ready"

\* C2 (as claimed): the waiter slot only ever holds the waker of a
\* suspension that still exists (a future that is pending, not dropped), and
\* a push never invokes the waker of a dropped suspension.
C2_WaiterIsLiveSuspension ==
    /\ waiter /= NoWaker => fut[waiter] = "pending"
    /\ (qlast.op = "push" /\ qlast.woke /= NoWaker) => fut[qlast.woke] /= "dropped"

----------------------------------------------------------------------------
(* Claims about MsgParser::string, checked under SpecParser *)

\* n rounded up to a multiple of 4
Up4(n) == 4 * ((n + 3) \div 4)

\* the length word at byte offset p is below 65536
SmallLenAt(d, p) == d[p + 3] = 0 /\ d[p + 4] = 0
\* its value then
LenAt(d, p) == d[p + 1] + 256 * d[p + 2]
\* the len - 1 bytes following the length word at p
TextAt(d, p) == SubSeq(d, p + 5, p + 4 + LenAt(d, p) - 1)

\* C9: when the payload holds, at the cursor, the length word len = |t| + 1,
\* the bytes of a UTF-8 text t, a terminator byte and padding up to a
\* multiple of 4, string returns exactly t and moves the cursor by
\* 4 + (len rounded up to a multiple of 4).
C9_StringRoundTrip ==
    LET p == plast.from
        len == LenAt(pdata, p)
        t == TextAt(pdata, p)
    IN  ( /\ plast.op = "string"
          /\ Len(pdata) - p >= 4
          /\ SmallLenAt(pdata, p)
          /\ len >= 1
          /\ Len(pdata) - (p + 4) >= Up4(len)
          /\ from_utf8(t) )
        => /\ plast.status = "Ok"
           /\ plast.val = t
           /\ ppos = p + 4 + Up4(len)

\* C9 witness: the two-byte text U+00E9 (len 3, one byte of padding) was
\* decoded from the second word of a payload.
C9_Witness ==
    /\ plast.op = "string"
    /\ plast.from = 4
    /\ plast.status = "Ok"
    /\ plast.val = <<195, 169>>
    /\ ppos = 12

\* C10: string fails with UnexpectedEof when fewer than 4 bytes remain or
\* the padded length exceeds what remains after the length word, with
\* EmptyString when the length word is 0, with NonUtf8 when the len - 1 text
\* bytes are not UTF-8; and no call ever reads a byte at or past the end of
\* the payload (nor panics).
C10_StringErrors ==
    /\ pread <= Len(pdata)
    /\ plast.status /= "Panic"
    /\ plast.op = "string" =>
        LET p == plast.from
            rem == Len(pdata) - p
        IN  /\ rem < 4 => plast.status = "UnexpectedEof"
            /\ rem >= 4 =>
                /\ SubSeq(pdata, p + 1, p + 4) = <<0, 0, 0, 0>>
                     => plast.status = "EmptyString"
                /\ ~SmallLenAt(pdata, p) => plast.status = "UnexpectedEof"
                /\ (SmallLenAt(pdata, p) /\ Up4(LenAt(pdata, p)) > rem - 4)
                     => plast.status = "UnexpectedEof"
                /\ ( /\ SmallLenAt(pdata, p)
                     /\ LenAt(pdata, p) >= 1
                     /\ Up4(LenAt(pdata, p)) <= rem - 4
                     /\ ~from_utf8(TextAt(pdata, p)) )
                     => plast.status = "NonUtf8"

\* C10 witness: a length word of 2 followed by nothing (a truncated
\* payload) made string fail with UnexpectedEof.
C10_Witness ==
    /\ plast.op = "string"
    /\ plast.status = "UnexpectedEof"
    /\ Len(pdata) - plast.from = 4
    /\ SubSeq(pdata, plast.from + 1, plast.from + 4) = <<2, 0, 0, 0>>

----------------------------------------------------------------------------
(* Claims about the protocol objects *)

\* what the handlers can change, apart from the result and the events
objstate ==
    <<objects, version, xdgOut, logLevel, running, pointers, appCursor,
      surfRole, hotspot, offerSrc, clearCalls>>

\* the surface argument of a set_cursor is absent, or names a live surface
\* that has no role or the cursor role
CursorSurfaceOk(b) ==
    \/ b = 0
    \/ objects[b] = "wl_surface" /\ surfRole[b] \in {"none", "cursor"}

\* C3 (as claimed), under SpecSeat: a well-formed set_cursor (its surface, if
\* given, one that may carry a cursor) whose serial is not the connection's
\* last enter serial, or that comes while the connection does not own the
\* pointer focus, returns success, leaves the application cursor, every
\* surface's role and hotspot and the registry as they were, and emits no
\* event.
C3_StaleSetCursorIsNoop ==
    [][ ( /\ last'.op = "request"
          /\ objects[last'.id] = "wl_pointer"
          /\ last'.opcode = PT_SET_CURSOR
          /\ last'.req.wf
          /\ CursorSurfaceOk(last'.req.b)
          /\ (last'.req.a /= lastEnter \/ focus /= Us) )
        => /\ last'.res = "ok"
           /\ UNCHANGED <<appCursor, surfRole, hotspot, objects>>
           /\ events' = <<>> ]_vars

\* C4, under SpecOffer: create on a seat without a primary-selection device
\* of the client returns None and leaves the registry exactly as it was.
C4_CreateWithoutDeviceIsAtomic ==
    [][ (last'.op = "create" /\ devices = 0)
        => /\ last'.res = "None"
           /\ objects' = objects ]_vars

\* C4 witness: create has returned None on a seat without devices and the
\* registry holds no object.
C4_Witness ==
    /\ last.op = "create"
    /\ last.res = "None"
    /\ devices = 0
    /\ \A i \in Ids : objects[i] = NoObj

\* C5, under SpecOffer: for every offer (all are created with a source), over
\* any destroy requests, break_loops calls and teardown, clear_offer has been
\* called exactly once if the offer is disconnected and never before, and
\* once its source reference is empty it stays empty.
OfferFresh(id) == last'.op = "create" /\ last'.id = id
C5_ClearOfferOnce ==
    /\ [](\A id \in ServerIds :
            offerSrc[id] >= 0 =>
                clearCalls[id] = IF offerSrc[id] = 0 THEN 1 ELSE 0)
    /\ [][ \A id \in ServerIds :
            (offerSrc[id] = 0 /\ ~OfferFresh(id))
                => (offerSrc'[id] = 0 /\ clearCalls'[id] = 1) ]_vars

\* C5 witness: break_loops ran on an offer that had reached a device and was
\* destroyed before; its source is empty and clear_offer was called once.
C5_Witness ==
    /\ last.op = "break_loops"
    /\ devices >= 1
    /\ objects[last.id] = NoObj
    /\ offerSrc[last.id] = 0
    /\ clearCalls[last.id] = 1

\* the id a factory call is to give to the object it creates
NewIdOf(l) == IF l.op = "bind" THEN l.id ELSE l.req.a
IsFactory(l) ==
    \/ l.op = "bind"
    \/ /\ l.op = "request" /\ l.req.wf
       /\ \/ objects[l.id] = "jay_compositor" /\ l.opcode = JC_GET_LOG_FILE
          \/ objects[l.id] = "zxdg_output_manager_v1" /\ l.opcode = XM_GET_XDG_OUTPUT

\* C6, under SpecGlobals: a bind, get_log_file or get_xdg_output whose new id
\* is already live fails; the registry is unchanged (the id still denotes the
\* original object), no event was emitted and no output's xdg_outputs map
\* has changed.
C6_DuplicateIdRejected ==
    [][ (IsFactory(last') /\ objects[NewIdOf(last')] /= NoObj)
        => /\ last'.res /= "ok"
           /\ objects' = objects
           /\ events' = <<>>
           /\ xdgOut' = xdgOut ]_vars

\* C6 witness: get_xdg_output for a live wl_output failed on its new id,
\* which was in use; the manager is still registered.
C6_Witness ==
    /\ last.op = "request"
    /\ last.opcode = XM_GET_XDG_OUTPUT
    /\ objects[last.id] = "zxdg_output_manager_v1"
    /\ objects[last.req.b] = "wl_output"
    /\ last.res = "IdAlreadyInUse"

\* C7, under SpecDispatch: a request whose opcode is not in the object's
\* request table is rejected as an invalid request; no handler has run:
\* nothing of the registry, the seat, the offers, the logger or the event
\* loop has changed and no event was emitted.
C7_OpcodeOutOfBounds ==
    [][ ( /\ last'.op = "request"
          /\ last'.opcode >= Len(RequestTable(objects[last'.id])) )
        => /\ last'.res = "InvalidRequest"
           /\ UNCHANGED objstate
           /\ events' = <<>> ]_vars

\* C7 witness: opcode 2 was sent to the wl_pointer, which accepts 0 and 1,
\* and was rejected.
C7_Witness ==
    /\ last.op = "request"
    /\ objects[last.id] = "wl_pointer"
    /\ last.opcode = PT_RELEASE + 1
    /\ last.res = "InvalidRequest"

\* C8, under SpecGlobals: of each singleton global at most one bound
\* instance is live on the connection, and a bind while an instance is live
\* is rejected with the registry unchanged.
Instances(kind) == {i \in Ids : objects[i] = kind}
C8_SingletonBoundOnce ==
    /\ [](\A g \in {"jay_compositor", "zxdg_output_manager_v1"} :
            Cardinality(Instances(GlobalKind(g))) <= 1)
    /\ [][ (last'.op = "bind" /\ Instances(GlobalKind(last'.req.a)) /= {})
            => (last'.res /= "ok" /\ objects' = objects) ]_vars

\* C8 witness: a second bind of the output manager was rejected because an
\* instance is live, and that one instance is still registered.
C8_Witness ==
    /\ last.op = "bind"
    /\ last.req.a = "zxdg_output_manager_v1"
    /\ last.res = "SingletonBound"
    /\ Cardinality(Instances("zxdg_output_manager_v1")) = 1

----------------------------------------------------------------------------
(* Claims about MsgParser: words and end of payload *)

\* the 32-bit word at byte offset p, as an unsigned number <<hi, lo>>
WordAt(d, p) == <<d[p + 3] + 256 * d[p + 4], d[p + 1] + 256 * d[p + 2]>>
\* the bytes of the two's complement representation of the i32 i are those
\* at offset p
IsI32At(i, d, p) ==
    /\ i >= -2147483647 - 1 /\ i <= 2147483647
    /\ i % 256 = d[p + 1]
    /\ (i \div 256) % 256 = d[p + 2]
    /\ (i \div 65536) % 256 = d[p + 3]
    /\ (i \div 16777216) % 256 = d[p + 4]
WordOps == {"int", "uint", "object", "global", "fixed"}

\* C11, under SpecParser: int, uint, object, global and fixed succeed exactly
\* when at least 4 bytes remain after the cursor; they then return the word
\* at the cursor (as i32, as u32, or as the i32 over 256) and advance the
\* cursor by 4; otherwise they fail with UnexpectedEof and the cursor stays.
C11_WordReads ==
    plast.op \in WordOps =>
        IF Len(pdata) - plast.from >= 4
        THEN /\ plast.status = "Ok"
             /\ ppos = plast.from + 4
             /\ plast.op = "int" => IsI32At(plast.val, pdata, plast.from)
             /\ plast.op \in {"uint", "object", "global"} =>
                    plast.val = WordAt(pdata, plast.from)
             /\ plast.op = "fixed" =>
                    /\ IsI32At(plast.val[1], pdata, plast.from)
                    /\ plast.val[2] = 256
        ELSE /\ plast.status = "UnexpectedEof"
             /\ ppos = plast.from

\* C11 witness: int has read the second word of an 8-byte payload, the word
\* 0xFFFFFFFF, as -1 and the cursor is at 8, where the next read must fail.
C11_Witness ==
    /\ plast.op = "int"
    /\ plast.from = 4
    /\ Len(pdata) = 8
    /\ plast.status = "Ok"
    /\ plast.val = -1
    /\ ppos = 8

\* C12, under SpecParser: after any sequence of decode calls, eof succeeds
\* if and only if the cursor is at the payload's length and fails with
\* TrailingData otherwise, and it does not move the cursor.
C12_EofExact ==
    plast.op = "eof" =>
        /\ plast.status = IF plast.from = Len(pdata) THEN "Ok" ELSE "TrailingData"
        /\ ppos = plast.from

\* C12 witness: a handler has decoded one word of a longer payload and eof
\* has rejected the rest as trailing data.
C12_Witness ==
    /\ plast.op = "eof"
    /\ plast.from = 4
    /\ Len(pdata) > 4
    /\ plast.status = "TrailingData"
    /\ ppos = 4

----------------------------------------------------------------------------
(* Claims about AsyncQueue: wakes, overwritten waiters, clear *)

\* C13, under SpecQueue: push appends its element at the back; if a waiter is
\* registered it is woken once and the slot is emptied, otherwise nobody is
\* woken; a push that directly follows a push wakes nobody, and the only
\* step that fills the waiter slot is a poll that returns Pending.
C13_PushWakesOnce ==
    /\ [][ qlast'.op = "push" =>
            /\ data' = Append(data, qlast'.ret)
            /\ waiter' = NoWaker
            /\ wakes' = IF waiter /= NoWaker
                        THEN [wakes EXCEPT ![waiter] = @ + 1]
                        ELSE wakes
            /\ (qlast.op = "push" => wakes' = wakes) ]_vars
    /\ [][ (waiter = NoWaker /\ waiter' /= NoWaker)
            => (qlast'.op = "poll" /\ qlast'.ret = 0) ]_vars

\* C13 witness: a suspended pop was woken by the first push, and the second
\* push, which followed directly, woke nobody: one wake in total.
C13_Witness ==
    /\ qlast.op = "push"
    /\ qlast.woke = NoWaker
    /\ data = <<1, 2>>
    /\ fut[1] = "pending"
    /\ wakes[1] = 1
    /\ waiter = NoWaker

\* C14, under SpecQueue: the waiter slot holds the waker of the pop that was
\* polled to Pending last: such a poll overwrites the slot whatever it held,
\* only push and clear empty it, no other step changes it, and a push wakes
\* the slot's waker and no other.
C14_SecondWaiterOverwrites ==
    /\ [][ (qlast'.op = "poll" /\ qlast'.ret = 0) => waiter' = qlast'.by ]_vars
    /\ [][ waiter' /= waiter
            => \/ qlast'.op = "poll" /\ qlast'.ret = 0
               \/ qlast'.op \in {"push", "clear"} /\ waiter' = NoWaker ]_vars
    /\ [][ qlast'.op = "push" =>
            \A f \in Futs :
                wakes'[f] = IF f = waiter THEN wakes[f] + 1 ELSE wakes[f] ]_vars

\* C14 witness: pops 1 and 2 were both polled to Pending, 2 last; the push
\* woke 2 and not 1, which is still suspended.
C14_Witness ==
    /\ qlast.op = "push"
    /\ qlast.woke = 2
    /\ fut[1] = "pending"
    /\ fut[2] = "pending"
    /\ wakes = <<0, 1>>
    /\ data = <<1>>

\* elements that were pushed and are neither queued nor returned
Range(q) == {q[i] : i \in 1 .. Len(q)}
Gone == Range(pushed) \ (Range(data) \cup Range(popped))

\* C15, under SpecQueue: clear leaves no element and no waiter, wakes nobody
\* and returns nothing; the elements it discards are never queued or
\* returned again.
C15_ClearDiscards ==
    /\ [][ qlast'.op = "clear" =>
            /\ data' = <<>>
            /\ waiter' = NoWaker
            /\ wakes' = wakes
            /\ popped' = popped
            /\ Range(data) \subseteq Gone' ]_vars
    /\ [][ Gone \subseteq Gone' ]_vars

\* C15 witness: pop 1 was suspended when clear ran and has not been woken;
\* element 1, pushed later, was discarded by a second clear; the try_pop
\* after the push of 2 returned 2.
C15_Witness ==
    /\ cleared
    /\ fut[1] = "pending"
    /\ wakes[1] = 0
    /\ pushed = <<1, 2>>
    /\ popped = <<2>>
    /\ qlast.op = "try_pop"
    /\ qlast.ret = 2

\* C16, under SpecQueue: a poll on a non-empty queue completes with the front
\* element, removes it, and leaves the waiter slot as it was.
C16_ReadyPollNoSuspend ==
    [][ (qlast'.op = "poll" /\ data /= <<>>) =>
            /\ qlast'.ret = Head(data)
            /\ data' = Tail(data)
            /\ fut'[qlast'.by] = "ready"
            /\ waiter' = waiter ]_vars

\* C16 witness: after push(1), push(2) two pops have returned 1 and then 2;
\* no wake was ever delivered and the slot is empty, so neither suspended.
C16_Witness ==
    /\ ~cleared
    /\ pushed = <<1, 2>>
    /\ popped = <<1, 2>>
    /\ fut = <<"ready", "ready">>
    /\ waiter = NoWaker
    /\ wakes = <<0, 0>>
    /\ qlast.op = "poll" /\ qlast.ret = 2

----------------------------------------------------------------------------
(* Claims about PendingScroll *)

\* the value of cell (f, a) after the writes of log: the last one written
\* to it, or dflt
RECURSIVE LastWrite(_, _, _, _)
LastWrite(log, f, a, dflt) ==
    IF log = <<>> THEN dflt
    ELSE LET w == log[Len(log)]
         IN  IF w.f = f /\ w.a = a THEN w.v
             ELSE LastWrite(SubSeq(log, 1, Len(log) - 1), f, a, dflt)
Written(log) ==
    [ discrete |-> <<LastWrite(log, "discrete", 1, None), LastWrite(log, "discrete", 2, None)>>,
      axis |-> <<LastWrite(log, "axis", 1, None), LastWrite(log, "axis", 2, None)>>,
      stop |-> <<LastWrite(log, "stop", 1, <<FALSE>>)[1],
                 LastWrite(log, "stop", 2, <<FALSE>>)[1]>>,
      source |-> LastWrite(log, "source", 0, None) ]

\* C17, under SpecScroll: every take returns, cell by cell, what was written
\* since the previous take (the default where nothing was) and leaves every
\* cell at its default; so a take that follows a take returns the default.
C17_TakeDrains ==
    [][ pslast'.op = "take" =>
            /\ pslast'.ret = Written(pslog)
            /\ ps' = PendingScroll_default
            /\ (pslast.op = "take" => pslast'.ret = PendingScroll_default) ]_vars

\* C17 witness: after the updates axis0 = 1.5, axis1 = -2.0 and
\* source = WHEEL, take has returned exactly these and the buffer is empty.
C17_Witness ==
    /\ pslast.op = "take"
    /\ pslast.ret = [PendingScroll_default EXCEPT
                        !.axis = <<Some(384), Some(-512)>>,
                        !.source = Some(WHEEL)]
    /\ ps = PendingScroll_default

----------------------------------------------------------------------------
(* Claims about release and about requests that do not decode *)

\* C18, under SpecSeat: a well-formed release succeeds whatever the focus,
\* the serials and the cursor are, and afterwards the pointer's id is in
\* neither the seat's pointer set nor the registry.
C18_ReleaseRemoves ==
    [][ ( /\ last'.op = "request"
          /\ objects[last'.id] = "wl_pointer"
          /\ last'.opcode = PT_RELEASE
          /\ last'.req.wf )
        => /\ last'.res = "ok"
           /\ last'.id \notin pointers'
           /\ objects'[last'.id] = NoObj ]_vars

\* C18 witness: the pointer was released while another client held the
\* focus and a cursor set earlier was still the application cursor.
C18_Witness ==
    /\ last.op = "request"
    /\ last.opcode = PT_RELEASE
    /\ last.req.wf
    /\ last.res = "ok"
    /\ focus = Other
    /\ appCursor /= 0
    /\ pointers = {}
    /\ objects[last.id] = NoObj

\* C19, under SpecDispatch: when the payload of a request to a jay
\* compositor, pointer, selection offer or output manager object does not
\* decode, the handler returns an error, and the registry, the seat's
\* pointer set, the offers' sources, the log level, the running flag and
\* everything else the handlers can change are as before; no event was
\* emitted.
C19_DecodeFailureNoEffect ==
    [][ ( /\ last'.op = "request"
          /\ last'.opcode < Len(RequestTable(objects[last'.id]))
          /\ ~last'.req.wf )
        => /\ last'.res = "ParseError"
           /\ UNCHANGED objstate
           /\ events' = <<>> ]_vars

\* C19 witness: a destroy request to the offer did not decode; the error
\* was returned, the offer is registered and still refers to its source.
C19_Witness ==
    /\ last.op = "request"
    /\ objects[last.id] = "zwp_primary_selection_offer_v1"
    /\ last.opcode = OF_DESTROY
    /\ ~last.req.wf
    /\ last.res = "ParseError"
    /\ offerSrc[last.id] = TheSource
    /\ clearCalls[last.id] = 0

----------------------------------------------------------------------------
(* Claims about the consumer loop *)

\* C20, under SpecConsumer: the queue is never non-empty while the consumer
\* is suspended and has not been woken; a woken consumer finds an element;
\* and every pushed element is eventually returned by a pop.
C20_NoLostWakeup ==
    /\ []((data /= <<>> /\ fut[Consumer] = "pending") => wakes[Consumer] > 0)
    /\ [](Woken => data /= <<>>)
    /\ \A n \in 1 .. MaxPush : (Len(pushed) >= n) ~> (Len(popped) >= n)

\* C20 witness: the consumer suspended on the empty queue, two pushes came
\* before it ran again, and it is woken with both elements queued.
C20_Witness ==
    /\ fut[Consumer] = "pending"
    /\ wakes[Consumer] = 1
    /\ waiter = NoWaker
    /\ Len(data) = 2
    /\ qlast.op = "push"

----------------------------------------------------------------------------
(* Claims about the events of a selection offer *)

\* indices of the events of one kind
EventsOf(kind) == {i \in 1 .. Len(events) : events[i][1] = kind}
\* index before the first event sent for device d
BlockStart(d) == 1 + (d - 1) * (Len(mimeTypes) + 1)

\* C21, under SpecOffer: a create that reached k >= 1 devices has emitted
\* data_offer exactly once, as its first event, on the first device and with
\* the new offer's id; then, device by device, one offer event per mime type
\* of the source in list order, followed by that device's selection event.
C21_CreateEventOrder ==
    (last.op = "create" /\ last.res = "Some") =>
        /\ devices >= 1
        /\ Len(events) = 1 + devices * (Len(mimeTypes) + 1)
        /\ EventsOf("data_offer") = {1}
        /\ events[1][2] = 1 /\ events[1][3] = last.id
        /\ \A d \in 1 .. devices :
            /\ \A j \in 1 .. Len(mimeTypes) :
                LET ev == events[BlockStart(d) + j]
                IN  ev[1] = "offer" /\ ev[2] = last.id /\ ev[3] = mimeTypes[j]
            /\ LET ev == events[BlockStart(d) + Len(mimeTypes) + 1]
               IN  ev[1] = "selection" /\ ev[2] = d /\ ev[3] = last.id

\* C21 witness: a source with two mime types was offered to two devices:
\* seven events, the second device's block without a data_offer.
C21_Witness ==
    /\ last.op = "create"
    /\ last.res = "Some"
    /\ devices = 2
    /\ Len(mimeTypes) = 2
    /\ Len(events) = 7
    /\ events[5][1] = "offer"

\* C22, under SpecOffer: a well-formed receive on an offer returns success;
\* if the offer still refers to its source it sends that source exactly one
\* send event, carrying the request's mime type and file descriptor; if the
\* offer is disconnected it sends no event and flushes no connection.
C22_ReceiveAfterDisconnect ==
    [][ ( /\ last'.op = "request"
          /\ objects[last'.id] = "zwp_primary_selection_offer_v1"
          /\ last'.opcode = OF_RECEIVE
          /\ last'.req.wf )
        => /\ last'.res = "ok"
           /\ IF offerSrc[last'.id] > 0
              THEN /\ Cardinality({i \in 1 .. Len(events') : events'[i][1] = "send"}) = 1
                   /\ events'[1] = <<"send", offerSrc[last'.id], last'.req.a, last'.req.b>>
              ELSE events' = <<>> ]_vars

\* C22 witness: the offer was disconnected by break_loops and is still
\* registered; a receive for descriptor 4 succeeded and sent nothing.
C22_Witness ==
    /\ last.op = "request"
    /\ objects[last.id] = "zwp_primary_selection_offer_v1"
    /\ last.opcode = OF_RECEIVE
    /\ last.req.wf /\ last.req.b = 4
    /\ offerSrc[last.id] = 0
    /\ clearCalls[last.id] = 1
    /\ last.res = "ok"
    /\ events = <<>>

----------------------------------------------------------------------------
(* Claims about the cursor of MsgParser *)

\* C23, under SpecParser: over a payload of whole words, after any sequence
\* of int, uint, object, global, fixed, string, fd and eof calls, failed or
\* not, the cursor is a multiple of 4 between 0 and the payload's length.
C23_CursorInBounds ==
    /\ Len(pdata) % 4 = 0
    /\ ppos >= 0
    /\ ppos <= Len(pdata)
    /\ ppos % 4 = 0

\* C23 witness: string failed with UnexpectedEof after it had consumed the
\* length word, the last word of the payload; the cursor is at the end.
C23_Witness ==
    /\ plast.op = "string"
    /\ plast.status = "UnexpectedEof"
    /\ plast.from = 4
    /\ ppos = 8
    /\ Len(pdata) = 8
    /\ pread = 8

----------------------------------------------------------------------------
(* Claims about TestShmPool *)

DestroysSent == Cardinality({i \in 1 .. Len(sent) : sent[i][1] = "destroy"})

\* C24, under SpecShmPool: over any number of destroy calls and the drop,
\* one Destroy message has been sent if the destroyed flag is set and none
\* otherwise; a dropped pool has its flag set; a destroy or drop that finds
\* the flag clear sends Destroy and sets it, one that finds it set sends
\* nothing.
C24_DestroySentOnce ==
    /\ [](DestroysSent = IF destroyed THEN 1 ELSE 0)
    /\ [](dropped => destroyed)
    /\ [][ shlast'.op \in {"destroy", "drop"} =>
            /\ destroyed'
            /\ sent' = IF destroyed THEN sent
                       ELSE Append(sent, <<"destroy", PoolId>>) ]_vars

\* C24 witness: destroy was called twice and the pool was then dropped;
\* one Destroy message is on the transport.
C24_Witness ==
    /\ calls = 2
    /\ dropped
    /\ shlast.op = "drop"
    /\ DestroysSent = 1

====
